---- MODULE Spec2Model ----
(***************************************************************************)
(* Model of the example EmailService gRPC server (Valar) of the            *)
(* Cloud9Money/api-protos repository:                                      *)
(*   examples/valar-server/email_server.go                                 *)
(*                                                                         *)
(* Every RPC is served by one handler of EmailServer.  A handler validates *)
(* the request, calls the ResendClient provider once and shapes the        *)
(* provider's outcome into a SendEmailResponse.  The provider call is the  *)
(* only point where a handler blocks, so each handler is modelled by two   *)
(* actions: the part up to and including the provider invocation, and the  *)
(* part that resumes with the provider's return values.  Calls are         *)
(* independent goroutines, one per element of Calls.                       *)
(***************************************************************************)
EXTENDS Integers, Sequences, FiniteSets, TLC

(***************************************************************************)
(* Bounds of the model.                                                    *)
(***************************************************************************)
NumCalls == 1          \* number of RPC calls served
MaxTime == 2           \* time.Now().Unix() ranges over 1..MaxTime
NumConc == 2           \* number of RPC calls served concurrently (SpecConc)
MaxDialSeconds == 6    \* a dial needs 0..MaxDialSeconds seconds to connect

Calls == 1..NumCalls
ConcCalls == 1..NumConc
Times == 1..MaxTime

(***************************************************************************)
(* Go values.                                                              *)
(***************************************************************************)
\* a nil *emailv1.SendEmailResponse
NilResponse == [nil |-> TRUE]

\* a nil map[string]string
NilMap == <<>>

\* a nil error returned by the provider, and a non-nil one with its text
NoErr == [isNil |-> TRUE, text |-> ""]
GoErr(text) == [isNil |-> FALSE, text |-> text]

\* the RPC status of a handler's second return value
NilStatus == [code |-> "OK", msg |-> ""]
StatusError(code, msg) == [code |-> code, msg |-> msg]

\* fmt.Sprintf("%d", n)
FormatD(n) == ToString(n)

\* fmt.Sprintf("%.2f", x) for a non-negative amount x given in hundredths
Format2f(h) ==
    ToString(h \div 100) \o "." \o
    (IF h % 100 < 10 THEN "0" ELSE "") \o ToString(h % 100)

(***************************************************************************)
(* Inputs: the requests of the six RPCs and the provider's return values.  *)
(***************************************************************************)
Emails == {"", "user@example.com"}
UserNames == {"", "John Doe"}

SendEmailRequests ==
    [To : Emails, Subject : {"", "x"}, HtmlBody : {"", "y"},
     TextBody : {"", "z"}]

SendVerificationEmailRequests ==
    [To : Emails, VerificationToken : {"", "abc123", "tok&2"},
     VerificationUrl : {"", "https://hama.test/v"}, UserName : UserNames]

SendPasswordResetEmailRequests ==
    [To : Emails, ResetToken : {"", "r5t", "tok&2"},
     ResetUrl : {"", "https://hama.test/r"}, UserName : {"John Doe"},
     ExpiryMinutes : {0, 30}]

SendWelcomeEmailRequests ==
    [To : Emails, UserName : UserNames, AccountType : {"", "personal"}]

SendTransactionNotificationRequests ==
    [To : Emails, TransactionId : {"", "txn-123456"},
     TransactionType : {"credit"}, Amount : {0, 100005},
     Currency : {"KES"}, RecipientName : {""},
     Timestamp : {"2025-10-30T00:00:00Z"}, Balance : {0, 500000}]

SendTemplateEmailRequests ==
    [To : Emails, TemplateId : {"", "welcome-email"},
     Variables : {NilMap, [user_name |-> "Jane Doe"]}]

\* what ResendClient.SendEmail / SendWithTemplate may return
ProviderOutcomes ==
    [messageID : {"", "msg_001"},
     err : {NoErr, GoErr(""), GoErr("quota exceeded")}]

NoRequest == [To |-> ""]
\* the RPC, or the client method, has not returned yet
NotReturned == [pending |-> TRUE]
NoOutcome == [messageID |-> "", err |-> NoErr]

(***************************************************************************)
(* State.                                                                  *)
(***************************************************************************)
VARIABLES
    pc,         \* pc[c]: "idle", "provider" (blocked in the provider) or "done"
    handler,    \* handler[c]: the RPC handler serving call c
    req,        \* req[c]: the request of call c
    provCalls,  \* provCalls[c]: the provider invocations made during call c
    outcome,    \* outcome[c]: what the provider returned to call c
    resp,       \* resp[c]: the response returned by the handler
    rpcErr,     \* rpcErr[c]: the error returned by the handler
    ctxDone,    \* ctxDone[c]: the context of call c is cancelled or expired
    rpcRet,     \* rpcRet[c]: what the RPC returned to the EmailClient method
    clientErr,  \* clientErr[c]: the error returned by the EmailClient method
    auth,       \* the example AuthHandler method in progress and its result
    valar,      \* the process of the example server's main
    hama,       \* the process of the example client's main
    env,        \* the environment variables of the process
    got         \* the last call of getEnv and what it returned

serverVars == <<pc, handler, req, provCalls, outcome, resp, rpcErr>>
clientVars == <<ctxDone, rpcRet, clientErr>>
callVars == <<serverVars, clientVars>>
mainVars == <<valar, hama, env, got>>
appVars == <<auth, mainVars>>
otherVars == <<clientVars, appVars>>
vars == <<pc, handler, req, provCalls, outcome, resp, rpcErr,
          ctxDone, rpcRet, clientErr, auth, valar, hama, env, got>>

\* no AuthHandler method has been called
AuthIdle ==
    [op |-> "none", pc |-> "idle", repoErr |-> NotReturned,
     tokenErr |-> NotReturned, goroutine |-> "none", logged |-> FALSE,
     call |-> 0, ret |-> NotReturned]

\* the environment variables the two programs read
EnvKeys == {"GRPC_PORT", "HTTP_PORT", "VALAR_GRPC_ENDPOINT"}
\* a variable is unset, set to the empty string or set to a value
Unset == [set |-> FALSE, value |-> ""]
EnvValues == {Unset, [set |-> TRUE, value |-> ""],
              [set |-> TRUE, value |-> "9090"]}
Envs == [EnvKeys -> EnvValues]
EmptyEnv == [k \in EnvKeys |-> Unset]

\* the server's main has not started
ValarStart ==
    [pc |-> "start", grpcPort |-> "", httpPort |-> "", serve |-> "none",
     notify |-> FALSE, quit |-> 0, signalled |-> FALSE,
     stopCalled |-> FALSE, exit |-> "running", fatal |-> "none"]

\* a nil *EmailClient
NilClient == [nil |-> TRUE]

\* the client's main has not started
HamaStart ==
    [pc |-> "start", endpoint |-> "", dialSeconds |-> 0,
     client |-> NilClient, err |-> NoErr, closed |-> FALSE,
     exit |-> "running"]

\* getEnv has not been called
NoGot == [called |-> FALSE, key |-> "", fallback |-> "", result |-> ""]

\* the programs around the calls before they start
InitApp ==
    /\ auth = AuthIdle
    /\ valar = ValarStart
    /\ hama = HamaStart
    /\ env = EmptyEnv
    /\ got = NoGot

\* the state before any of the calls in S is made
InitCalls(S) ==
    /\ pc = [c \in S |-> "idle"]
    /\ handler = [c \in S |-> "none"]
    /\ req = [c \in S |-> NoRequest]
    /\ provCalls = [c \in S |-> <<>>]
    /\ outcome = [c \in S |-> NoOutcome]
    /\ resp = [c \in S |-> NilResponse]
    /\ rpcErr = [c \in S |-> NilStatus]
    /\ ctxDone = [c \in S |-> FALSE]
    /\ rpcRet = [c \in S |-> NotReturned]
    /\ clientErr = [c \in S |-> NotReturned]

Init == InitCalls(Calls) /\ InitApp

(***************************************************************************)
(* Validation of each handler: the status of the first failing check, or   *)
(* NilStatus when the request passes.                                      *)
(***************************************************************************)
\* mutant: the body check comes before the subject check
ValidateSendEmail_BodyBeforeSubject(r) ==
    IF r.To = "" THEN
        StatusError("InvalidArgument", "recipient email is required")
    ELSE IF r.HtmlBody = "" /\ r.TextBody = "" THEN
        StatusError("InvalidArgument", "email body is required")
    ELSE IF r.Subject = "" THEN
        StatusError("InvalidArgument", "subject is required")
    ELSE NilStatus

\* mutant: the body check uses "or" where the handler uses "and"
ValidateSendEmail_EitherBodyEmpty(r) ==
    IF r.To = "" THEN
        StatusError("InvalidArgument", "recipient email is required")
    ELSE IF r.Subject = "" THEN
        StatusError("InvalidArgument", "subject is required")
    ELSE IF r.HtmlBody = "" \/ r.TextBody = "" THEN
        StatusError("InvalidArgument", "email body is required")
    ELSE NilStatus

ValidateSendEmail(r) ==
    IF r.To = "" THEN
        StatusError("InvalidArgument", "recipient email is required")
    ELSE IF r.Subject = "" THEN
        StatusError("InvalidArgument", "subject is required")
    ELSE IF r.HtmlBody = "" /\ r.TextBody = "" THEN
        StatusError("InvalidArgument", "email body is required")
    ELSE NilStatus

ValidateSendVerificationEmail(r) ==
    IF r.To = "" THEN
        StatusError("InvalidArgument", "recipient email is required")
    ELSE IF r.VerificationToken = "" THEN
        StatusError("InvalidArgument", "verification token is required")
    ELSE NilStatus

\* mutant: the reset token check is missing
ValidateSendPasswordResetEmail_NoTokenCheck(r) ==
    IF r.To = "" THEN
        StatusError("InvalidArgument", "recipient email is required")
    ELSE NilStatus

ValidateSendPasswordResetEmail(r) ==
    IF r.To = "" THEN
        StatusError("InvalidArgument", "recipient email is required")
    ELSE IF r.ResetToken = "" THEN
        StatusError("InvalidArgument", "reset token is required")
    ELSE NilStatus

\* mutant: an empty user name is rejected
ValidateSendWelcomeEmail_RequiresUserName(r) ==
    IF r.To = "" THEN
        StatusError("InvalidArgument", "recipient email is required")
    ELSE IF r.UserName = "" THEN
        StatusError("InvalidArgument", "user name is required")
    ELSE NilStatus

\* mutant: the recipient check is missing
ValidateSendWelcomeEmail_NoRecipientCheck(r) == NilStatus

ValidateSendWelcomeEmail(r) ==
    IF r.To = "" THEN
        StatusError("InvalidArgument", "recipient email is required")
    ELSE NilStatus

ValidateSendTransactionNotification(r) ==
    IF r.To = "" THEN
        StatusError("InvalidArgument", "recipient email is required")
    ELSE NilStatus

\* mutant: the template ID check is missing
ValidateSendTemplateEmail_NoTemplateCheck(r) ==
    IF r.To = "" THEN
        StatusError("InvalidArgument", "recipient email is required")
    ELSE NilStatus

ValidateSendTemplateEmail(r) ==
    IF r.To = "" THEN
        StatusError("InvalidArgument", "recipient email is required")
    ELSE IF r.TemplateId = "" THEN
        StatusError("InvalidArgument", "template ID is required")
    ELSE NilStatus

(***************************************************************************)
(* Template variables of the fixed-purpose handlers.                       *)
(***************************************************************************)
\* mutant: the default URL is built without the token
VerificationVariables_UrlWithoutToken(r) ==
    LET verificationURL ==
            IF r.VerificationUrl = ""
            THEN "https://app.cloud9.money/verify?token="
            ELSE r.VerificationUrl
    IN  [user_name |-> r.UserName,
         verification_url |-> verificationURL,
         verification_token |-> r.VerificationToken,
         app_name |-> "Cloud9",
         support_email |-> "support@cloud9.money"]

VerificationVariables(r) ==
    LET verificationURL ==
            IF r.VerificationUrl = ""
            THEN "https://app.cloud9.money/verify?token=" \o r.VerificationToken
            ELSE r.VerificationUrl
    IN  [user_name |-> r.UserName,
         verification_url |-> verificationURL,
         verification_token |-> r.VerificationToken,
         app_name |-> "Cloud9",
         support_email |-> "support@cloud9.money"]

\* mutant: the request's reset URL is ignored
PasswordResetVariables_AlwaysDefaultUrl(r) ==
    [user_name |-> r.UserName,
     reset_url |-> "https://app.cloud9.money/reset-password?token="
                       \o r.ResetToken,
     reset_token |-> r.ResetToken,
     expiry_minutes |-> FormatD(r.ExpiryMinutes),
     app_name |-> "Cloud9",
     support_email |-> "support@cloud9.money"]

\* mutant: the default reset URL points to the verification page
PasswordResetVariables_VerifyPath(r) ==
    LET resetURL ==
            IF r.ResetUrl = ""
            THEN "https://app.cloud9.money/verify?token=" \o r.ResetToken
            ELSE r.ResetUrl
    IN  [user_name |-> r.UserName,
         reset_url |-> resetURL,
         reset_token |-> r.ResetToken,
         expiry_minutes |-> FormatD(r.ExpiryMinutes),
         app_name |-> "Cloud9",
         support_email |-> "support@cloud9.money"]

PasswordResetVariables(r) ==
    LET resetURL ==
            IF r.ResetUrl = ""
            THEN "https://app.cloud9.money/reset-password?token=" \o r.ResetToken
            ELSE r.ResetUrl
    IN  [user_name |-> r.UserName,
         reset_url |-> resetURL,
         reset_token |-> r.ResetToken,
         expiry_minutes |-> FormatD(r.ExpiryMinutes),
         app_name |-> "Cloud9",
         support_email |-> "support@cloud9.money"]

\* mutant: the app name is left out
WelcomeVariables_NoAppName(r) ==
    [user_name |-> r.UserName,
     account_type |-> r.AccountType,
     dashboard_url |-> "https://app.cloud9.money/dashboard"]

WelcomeVariables(r) ==
    [user_name |-> r.UserName,
     account_type |-> r.AccountType,
     app_name |-> "Cloud9",
     dashboard_url |-> "https://app.cloud9.money/dashboard"]

TransactionVariables(r) ==
    [transaction_id |-> r.TransactionId,
     transaction_type |-> r.TransactionType,
     amount |-> Format2f(r.Amount),
     currency |-> r.Currency,
     recipient_name |-> r.RecipientName,
     timestamp |-> r.Timestamp,
     balance |-> Format2f(r.Balance),
     app_name |-> "Cloud9"]

(***************************************************************************)
(* The two provider invocations of the ResendClient interface.             *)
(***************************************************************************)
ResendSendEmail(to, subject, html, text) ==
    [method |-> "SendEmail", to |-> to, subject |-> subject,
     html |-> html, text |-> text]

ResendSendWithTemplate(to, templateID, variables) ==
    [method |-> "SendWithTemplate", to |-> to, templateID |-> templateID,
     variables |-> variables]

(***************************************************************************)
(* Response shaping, the same in all six handlers.                         *)
(***************************************************************************)
\* mutant: the provider's error text is wrapped
FailedResponse_WrappedText(err, now) ==
    [MessageId |-> "", Success |-> FALSE,
     Error |-> "failed to send email: " \o err.text,
     Status |-> "failed", Timestamp |-> now]

\* mutant: the Error field is left unset
FailedResponse_NoErrorText(err, now) ==
    [MessageId |-> "", Success |-> FALSE, Error |-> "",
     Status |-> "failed", Timestamp |-> now]

FailedResponse(err, now) ==
    [MessageId |-> "", Success |-> FALSE, Error |-> err.text,
     Status |-> "failed", Timestamp |-> now]

\* mutant: the provider's id is prefixed
SentResponse_PrefixedId(messageID, now) ==
    [MessageId |-> "resend:" \o messageID, Success |-> TRUE, Error |-> "",
     Status |-> "sent", Timestamp |-> now]

\* mutant: the MessageId field is left unset
SentResponse_NoMessageId(messageID, now) ==
    [MessageId |-> "", Success |-> TRUE, Error |-> "",
     Status |-> "sent", Timestamp |-> now]

SentResponse(messageID, now) ==
    [MessageId |-> messageID, Success |-> TRUE, Error |-> "",
     Status |-> "sent", Timestamp |-> now]

(***************************************************************************)
(* The common control flow of a handler.                                   *)
(***************************************************************************)
\* mutant: the provider is invoked before the request is validated
Enter_ProviderBeforeValidation(c, h, r, status, inv) ==
    /\ pc[c] = "idle"
    /\ handler' = [handler EXCEPT ![c] = h]
    /\ req' = [req EXCEPT ![c] = r]
    /\ provCalls' = [provCalls EXCEPT ![c] = Append(@, inv)]
    /\ IF status # NilStatus
       THEN /\ pc' = [pc EXCEPT ![c] = "done"]
            /\ rpcErr' = [rpcErr EXCEPT ![c] = status]
       ELSE /\ pc' = [pc EXCEPT ![c] = "provider"]
            /\ UNCHANGED rpcErr
    /\ UNCHANGED <<outcome, resp>>

\* entry of handler h on call c with request r: validate, then either
\* return (nil, status) or invoke the provider with inv and block
Enter(c, h, r, status, inv) ==
    /\ pc[c] = "idle"
    /\ handler' = [handler EXCEPT ![c] = h]
    /\ req' = [req EXCEPT ![c] = r]
    /\ IF status # NilStatus
       THEN /\ pc' = [pc EXCEPT ![c] = "done"]
            /\ rpcErr' = [rpcErr EXCEPT ![c] = status]
            /\ UNCHANGED provCalls
       ELSE /\ pc' = [pc EXCEPT ![c] = "provider"]
            /\ provCalls' = [provCalls EXCEPT ![c] = Append(@, inv)]
            /\ UNCHANGED rpcErr
    /\ UNCHANGED <<outcome, resp>>

\* mutant: the message id is stamped with a server-wide sequence number
Resume_SequenceNumbered(c, h, o, now) ==
    /\ pc[c] = "provider"
    /\ handler[c] = h
    /\ outcome' = [outcome EXCEPT ![c] = o]
    /\ resp' = [resp EXCEPT ![c] =
                   IF ~o.err.isNil THEN FailedResponse(o.err, now)
                   ELSE SentResponse(
                            o.messageID \o "-" \o
                                ToString(Cardinality(
                                    {d \in DOMAIN pc : pc[d] = "done"})),
                            now)]
    /\ rpcErr' = [rpcErr EXCEPT ![c] = NilStatus]
    /\ pc' = [pc EXCEPT ![c] = "done"]
    /\ UNCHANGED <<handler, req, provCalls>>

\* mutant: the handlers share one response object, which each call rewrites
Resume_SharedResponse(c, h, o, now) ==
    /\ pc[c] = "provider"
    /\ handler[c] = h
    /\ outcome' = [outcome EXCEPT ![c] = o]
    /\ resp' = [d \in DOMAIN resp |->
                   IF d = c \/ resp[d] # NilResponse
                   THEN IF ~o.err.isNil THEN FailedResponse(o.err, now)
                        ELSE SentResponse(o.messageID, now)
                   ELSE resp[d]]
    /\ rpcErr' = [rpcErr EXCEPT ![c] = NilStatus]
    /\ pc' = [pc EXCEPT ![c] = "done"]
    /\ UNCHANGED <<handler, req, provCalls>>

\* mutant: a provider error is returned as an RPC error
Resume_ProviderErrorAsRpcError(c, h, o, now) ==
    /\ pc[c] = "provider"
    /\ handler[c] = h
    /\ outcome' = [outcome EXCEPT ![c] = o]
    /\ resp' = [resp EXCEPT ![c] =
                   IF ~o.err.isNil THEN NilResponse
                   ELSE SentResponse(o.messageID, now)]
    /\ rpcErr' = [rpcErr EXCEPT ![c] =
                     IF ~o.err.isNil THEN StatusError("Internal", o.err.text)
                     ELSE NilStatus]
    /\ pc' = [pc EXCEPT ![c] = "done"]
    /\ UNCHANGED <<handler, req, provCalls>>

\* the provider returns o to handler h of call c at time now; the handler
\* shapes the response and returns (response, nil)
Resume(c, h, o, now) ==
    /\ pc[c] = "provider"
    /\ handler[c] = h
    /\ outcome' = [outcome EXCEPT ![c] = o]
    /\ resp' = [resp EXCEPT ![c] =
                   IF ~o.err.isNil THEN FailedResponse(o.err, now)
                   ELSE SentResponse(o.messageID, now)]
    /\ rpcErr' = [rpcErr EXCEPT ![c] = NilStatus]
    /\ pc' = [pc EXCEPT ![c] = "done"]
    /\ UNCHANGED <<handler, req, provCalls>>

(***************************************************************************)
(* The six handlers.                                                       *)
(***************************************************************************)
\* mutant: the HTML and text bodies are passed in the wrong order
SendEmail_BodiesSwapped(c) ==
    \E r \in SendEmailRequests :
        Enter(c, "SendEmail", r, ValidateSendEmail(r),
              ResendSendEmail(r.To, r.Subject, r.TextBody, r.HtmlBody))

SendEmail(c) ==
    \E r \in SendEmailRequests :
        Enter(c, "SendEmail", r, ValidateSendEmail(r),
              ResendSendEmail(r.To, r.Subject, r.HtmlBody, r.TextBody))

SendEmailResume(c) ==
    \E o \in ProviderOutcomes, now \in Times : Resume(c, "SendEmail", o, now)

SendVerificationEmail(c) ==
    \E r \in SendVerificationEmailRequests :
        Enter(c, "SendVerificationEmail", r, ValidateSendVerificationEmail(r),
              ResendSendWithTemplate(r.To, "verification-email",
                                     VerificationVariables(r)))

SendVerificationEmailResume(c) ==
    \E o \in ProviderOutcomes, now \in Times :
        Resume(c, "SendVerificationEmail", o, now)

SendPasswordResetEmail(c) ==
    \E r \in SendPasswordResetEmailRequests :
        Enter(c, "SendPasswordResetEmail", r,
              ValidateSendPasswordResetEmail(r),
              ResendSendWithTemplate(r.To, "password-reset",
                                     PasswordResetVariables(r)))

SendPasswordResetEmailResume(c) ==
    \E o \in ProviderOutcomes, now \in Times :
        Resume(c, "SendPasswordResetEmail", o, now)

\* mutant: the welcome email is sent with the verification template
SendWelcomeEmail_WrongTemplate(c) ==
    \E r \in SendWelcomeEmailRequests :
        Enter(c, "SendWelcomeEmail", r, ValidateSendWelcomeEmail(r),
              ResendSendWithTemplate(r.To, "verification-email",
                                     WelcomeVariables(r)))

SendWelcomeEmail(c) ==
    \E r \in SendWelcomeEmailRequests :
        Enter(c, "SendWelcomeEmail", r, ValidateSendWelcomeEmail(r),
              ResendSendWithTemplate(r.To, "welcome-email",
                                     WelcomeVariables(r)))

SendWelcomeEmailResume(c) ==
    \E o \in ProviderOutcomes, now \in Times :
        Resume(c, "SendWelcomeEmail", o, now)

SendTransactionNotification(c) ==
    \E r \in SendTransactionNotificationRequests :
        Enter(c, "SendTransactionNotification", r,
              ValidateSendTransactionNotification(r),
              ResendSendWithTemplate(r.To, "transaction-notification",
                                     TransactionVariables(r)))

SendTransactionNotificationResume(c) ==
    \E o \in ProviderOutcomes, now \in Times :
        Resume(c, "SendTransactionNotification", o, now)

SendTemplateEmail(c) ==
    \E r \in SendTemplateEmailRequests :
        Enter(c, "SendTemplateEmail", r, ValidateSendTemplateEmail(r),
              ResendSendWithTemplate(r.To, r.TemplateId, r.Variables))

SendTemplateEmailResume(c) ==
    \E o \in ProviderOutcomes, now \in Times :
        Resume(c, "SendTemplateEmail", o, now)

Next ==
    \/ \E c \in Calls : SendEmail(c) /\ UNCHANGED otherVars
    \/ \E c \in Calls : SendEmailResume(c) /\ UNCHANGED otherVars
    \/ \E c \in Calls : SendVerificationEmail(c) /\ UNCHANGED otherVars
    \/ \E c \in Calls : SendVerificationEmailResume(c) /\ UNCHANGED otherVars
    \/ \E c \in Calls : SendPasswordResetEmail(c) /\ UNCHANGED otherVars
    \/ \E c \in Calls : SendPasswordResetEmailResume(c) /\ UNCHANGED otherVars
    \/ \E c \in Calls : SendWelcomeEmail(c) /\ UNCHANGED otherVars
    \/ \E c \in Calls : SendWelcomeEmailResume(c) /\ UNCHANGED otherVars
    \/ \E c \in Calls : SendTransactionNotification(c) /\ UNCHANGED otherVars
    \/ \E c \in Calls : SendTransactionNotificationResume(c) /\ UNCHANGED otherVars
    \/ \E c \in Calls : SendTemplateEmail(c) /\ UNCHANGED otherVars
    \/ \E c \in Calls : SendTemplateEmailResume(c) /\ UNCHANGED otherVars

Spec == Init /\ [][Next]_vars

(***************************************************************************)
(* Concurrent calls on one EmailServer: every call is served by its own    *)
(* goroutine; the steps of the calls interleave at the provider call.      *)
(* The requests and provider outcomes are a selection of those of Spec.    *)
(***************************************************************************)
ConcRequests ==
    {[To |-> "user@example.com", Subject |-> "x", HtmlBody |-> "y",
      TextBody |-> ""],
     [To |-> "", Subject |-> "x", HtmlBody |-> "y", TextBody |-> ""],
     [To |-> "user@example.com", VerificationToken |-> "abc123",
      VerificationUrl |-> "", UserName |-> "John Doe"],
     [To |-> "user@example.com", ResetToken |-> "r5t", ResetUrl |-> "",
      UserName |-> "John Doe", ExpiryMinutes |-> 30],
     [To |-> "user@example.com", UserName |-> "John Doe",
      AccountType |-> "personal"],
     [To |-> "user@example.com", TransactionId |-> "txn-123456",
      TransactionType |-> "credit", Amount |-> 100005, Currency |-> "KES",
      RecipientName |-> "", Timestamp |-> "2025-10-30T00:00:00Z",
      Balance |-> 500000],
     [To |-> "user@example.com", TemplateId |-> "welcome-email",
      Variables |-> [user_name |-> "Jane Doe"]]}

ConcOutcomes ==
    {o \in ProviderOutcomes :
        o.err.isNil \/ (o.messageID # "" /\ o.err.text # "")}

InitConc == InitCalls(ConcCalls) /\ InitApp

NextConc ==
    \/ \E c \in ConcCalls :
           SendEmail(c) /\ req'[c] \in ConcRequests /\ UNCHANGED otherVars
    \/ \E c \in ConcCalls :
           SendEmailResume(c) /\ outcome'[c] \in ConcOutcomes
               /\ UNCHANGED otherVars
    \/ \E c \in ConcCalls :
           SendVerificationEmail(c) /\ req'[c] \in ConcRequests
               /\ UNCHANGED otherVars
    \/ \E c \in ConcCalls :
           SendVerificationEmailResume(c) /\ outcome'[c] \in ConcOutcomes
               /\ UNCHANGED otherVars
    \/ \E c \in ConcCalls :
           SendPasswordResetEmail(c) /\ req'[c] \in ConcRequests
               /\ UNCHANGED otherVars
    \/ \E c \in ConcCalls :
           SendPasswordResetEmailResume(c) /\ outcome'[c] \in ConcOutcomes
               /\ UNCHANGED otherVars
    \/ \E c \in ConcCalls :
           SendWelcomeEmail(c) /\ req'[c] \in ConcRequests
               /\ UNCHANGED otherVars
    \/ \E c \in ConcCalls :
           SendWelcomeEmailResume(c) /\ outcome'[c] \in ConcOutcomes
               /\ UNCHANGED otherVars
    \/ \E c \in ConcCalls :
           SendTransactionNotification(c) /\ req'[c] \in ConcRequests
               /\ UNCHANGED otherVars
    \/ \E c \in ConcCalls :
           SendTransactionNotificationResume(c)
               /\ outcome'[c] \in ConcOutcomes /\ UNCHANGED otherVars
    \/ \E c \in ConcCalls :
           SendTemplateEmail(c) /\ req'[c] \in ConcRequests
               /\ UNCHANGED otherVars
    \/ \E c \in ConcCalls :
           SendTemplateEmailResume(c) /\ outcome'[c] \in ConcOutcomes
               /\ UNCHANGED otherVars

SpecConc == InitConc /\ [][NextConc]_vars

(***************************************************************************)
(* The EmailClient of examples/hama-client/email_client.go calling the     *)
(* EmailServer.  Each client method derives a context with the client's    *)
(* timeout, builds the request from its parameters, makes the RPC and      *)
(* turns the RPC's return values into its own error result.                *)
(***************************************************************************)
\* the parameters the client methods are called with
ClientTokens == {"", "abc123"}
ClientResetTokens == {"", "r5t"}
ClientUserNames == {"John Doe"}
ClientTransactionIds == {"", "txn-123456"}
ClientHtmlBodies == {"", "y"}
\* time.Now().Format(time.RFC3339)
Rfc3339Now == {"2025-10-30T00:00:00Z"}

\* the status returned by an RPC whose context deadline elapsed
DeadlineExceeded ==
    StatusError("DeadlineExceeded", "context deadline exceeded")

\* err.Error() of a non-nil gRPC status error
StatusText(st) == "rpc error: code = " \o st.code \o " desc = " \o st.msg

\* fmt.Errorf(prefix + verb, arg)
Errorf(prefix, arg) ==
    [isNil |-> FALSE, prefix |-> prefix, text |-> prefix \o arg]

\* what c.client.SendX(ctx, request) returns for call c: the handler's
\* return values, or DeadlineExceeded once ctx is done
RpcResult(c) ==
    IF ctxDone[c] THEN [resp |-> NilResponse, err |-> DeadlineExceeded]
    ELSE [resp |-> resp[c], err |-> rpcErr[c]]

\* mutant: a response with Success=false is not reported
ClientResult_IgnoresSuccess(rpc) ==
    IF rpc.err # NilStatus
    THEN Errorf("gRPC call failed: ", StatusText(rpc.err))
    ELSE NoErr

\* mutant: a timeout is reported as a failed send
ClientResult_TimeoutAsSendFailure(rpc) ==
    IF rpc.err = DeadlineExceeded
    THEN Errorf("email send failed: ", "timeout")
    ELSE IF rpc.err # NilStatus
    THEN Errorf("gRPC call failed: ", StatusText(rpc.err))
    ELSE IF ~rpc.resp.Success
    THEN Errorf("email send failed: ", rpc.resp.Error)
    ELSE NoErr

\* the error a client method returns for the RPC's return values
ClientResult(rpc) ==
    IF rpc.err # NilStatus
    THEN Errorf("gRPC call failed: ", StatusText(rpc.err))
    ELSE IF ~rpc.resp.Success
    THEN Errorf("email send failed: ", rpc.resp.Error)
    ELSE NoErr

\* mutant: the client sets a verification URL of its own
ClientSendVerificationEmail_SetsUrl(c) ==
    \E email \in Emails, token \in ClientTokens, userName \in ClientUserNames :
        /\ SendVerificationEmail(c)
        /\ req'[c] = [To |-> email, VerificationToken |-> token,
                      UserName |-> userName,
                      VerificationUrl |-> "https://hama.test/v"]
        /\ UNCHANGED clientVars

ClientSendVerificationEmail(c) ==
    \E email \in Emails, token \in ClientTokens, userName \in ClientUserNames :
        /\ SendVerificationEmail(c)
        /\ req'[c] = [To |-> email, VerificationToken |-> token,
                      UserName |-> userName, VerificationUrl |-> ""]
        /\ UNCHANGED clientVars

ClientSendPasswordResetEmail(c) ==
    \E email \in Emails, resetToken \in ClientResetTokens,
       userName \in ClientUserNames, expiryMinutes \in {30} :
        /\ SendPasswordResetEmail(c)
        /\ req'[c] = [To |-> email, ResetToken |-> resetToken,
                      UserName |-> userName,
                      ExpiryMinutes |-> expiryMinutes, ResetUrl |-> ""]
        /\ UNCHANGED clientVars

ClientSendWelcomeEmail(c) ==
    \E email \in Emails, userName \in ClientUserNames,
       accountType \in {"personal"} :
        /\ SendWelcomeEmail(c)
        /\ req'[c] = [To |-> email, UserName |-> userName,
                      AccountType |-> accountType]
        /\ UNCHANGED clientVars

ClientSendTransactionNotification(c) ==
    \E email \in Emails, txnID \in ClientTransactionIds,
       txnType \in {"credit"}, amount \in {100005}, currency \in {"KES"},
       balance \in {500000}, timestamp \in Rfc3339Now :
        /\ SendTransactionNotification(c)
        /\ req'[c] = [To |-> email, TransactionId |-> txnID,
                      TransactionType |-> txnType, Amount |-> amount,
                      Currency |-> currency, Timestamp |-> timestamp,
                      Balance |-> balance, RecipientName |-> ""]
        /\ UNCHANGED clientVars

ClientSendCustomEmail(c) ==
    \E to \in Emails, subject \in {"x"}, htmlBody \in ClientHtmlBodies,
       textBody \in {"z"} :
        /\ SendEmail(c)
        /\ req'[c] = [To |-> to, Subject |-> subject,
                      HtmlBody |-> htmlBody, TextBody |-> textBody]
        /\ UNCHANGED clientVars

\* the deadline of the context of call c elapses, or its caller cancels it,
\* while the handler is blocked in the provider
Deadline(c) ==
    /\ pc[c] = "provider"
    /\ ~ctxDone[c]
    /\ rpcRet[c] = NotReturned
    /\ ctxDone' = [ctxDone EXCEPT ![c] = TRUE]
    /\ UNCHANGED <<serverVars, rpcRet, clientErr>>

\* the RPC of call c returns to the client method, which returns its result
ClientReturn(c) ==
    /\ rpcRet[c] = NotReturned
    /\ pc[c] # "idle"
    /\ ctxDone[c] \/ pc[c] = "done"
    /\ rpcRet' = [rpcRet EXCEPT ![c] = RpcResult(c)]
    /\ clientErr' = [clientErr EXCEPT ![c] = ClientResult(RpcResult(c))]
    /\ UNCHANGED <<serverVars, ctxDone>>

NextClient ==
    \/ \E c \in Calls : ClientSendVerificationEmail(c) /\ UNCHANGED appVars
    \/ \E c \in Calls : ClientSendPasswordResetEmail(c) /\ UNCHANGED appVars
    \/ \E c \in Calls : ClientSendWelcomeEmail(c) /\ UNCHANGED appVars
    \/ \E c \in Calls : ClientSendTransactionNotification(c) /\ UNCHANGED appVars
    \/ \E c \in Calls : ClientSendCustomEmail(c) /\ UNCHANGED appVars
    \/ \E c \in Calls : SendEmailResume(c) /\ UNCHANGED otherVars
    \/ \E c \in Calls : SendVerificationEmailResume(c) /\ UNCHANGED otherVars
    \/ \E c \in Calls : SendPasswordResetEmailResume(c) /\ UNCHANGED otherVars
    \/ \E c \in Calls : SendWelcomeEmailResume(c) /\ UNCHANGED otherVars
    \/ \E c \in Calls :
           SendTransactionNotificationResume(c) /\ UNCHANGED otherVars
    \/ \E c \in Calls : Deadline(c) /\ UNCHANGED appVars
    \/ \E c \in Calls : ClientReturn(c) /\ UNCHANGED appVars

SpecClient == Init /\ [][NextClient]_vars

(***************************************************************************)
(* The example AuthHandler of examples/hama-client/email_client.go, the    *)
(* caller of the EmailClient.  Register starts a goroutine that sends the  *)
(* verification email and returns; ForgotPassword sends the password reset *)
(* email itself and returns what the client method returned.              *)
(***************************************************************************)
\* what userRepo.Create and userRepo.FindByEmail return as error
RepoOutcomes == {NoErr, GoErr("user store unavailable")}
\* what the tokenService methods return as error
TokenOutcomes == {NoErr, GoErr("token generation failed")}

\* the error of the first failing collaborator, nil when both succeed
FirstError(repoErr, tokenErr) ==
    IF ~repoErr.isNil THEN repoErr
    ELSE IF ~tokenErr.isNil THEN tokenErr
    ELSE NoErr

\* Register: create the user, generate the token, start the goroutine that
\* sends the verification email, return nil
Register ==
    /\ auth.pc = "idle"
    /\ \E repoErr \in RepoOutcomes, tokenErr \in TokenOutcomes :
           auth' = [auth EXCEPT
                        !.op = "Register",
                        !.pc = "returned",
                        !.repoErr = repoErr,
                        !.tokenErr =
                            IF repoErr.isNil THEN tokenErr ELSE NotReturned,
                        !.goroutine =
                            IF FirstError(repoErr, tokenErr).isNil
                            THEN "spawned" ELSE "none",
                        !.ret = FirstError(repoErr, tokenErr)]
    /\ UNCHANGED callVars

\* the goroutine of Register calls EmailClient.SendVerificationEmail
RegisterGoroutine(c) ==
    /\ auth.op = "Register"
    /\ auth.goroutine = "spawned"
    /\ ClientSendVerificationEmail(c)
    /\ auth' = [auth EXCEPT !.goroutine = "calling", !.call = c]

\* the client method returns to the goroutine, which logs a non-nil error
\* and ends
RegisterGoroutineEnd ==
    /\ auth.op = "Register"
    /\ auth.goroutine = "calling"
    /\ clientErr[auth.call] # NotReturned
    /\ auth' = [auth EXCEPT !.goroutine = "ended",
                            !.logged = ~clientErr[auth.call].isNil]
    /\ UNCHANGED callVars

\* ForgotPassword: find the user, generate the token and call
\* EmailClient.SendPasswordResetEmail with an expiry of 30 minutes
ForgotPassword(c) ==
    /\ auth.pc = "idle"
    /\ \E repoErr \in RepoOutcomes, tokenErr \in TokenOutcomes :
           IF FirstError(repoErr, tokenErr).isNil
           THEN /\ ClientSendPasswordResetEmail(c)
                /\ req'[c].ExpiryMinutes = 30
                /\ auth' = [auth EXCEPT !.op = "ForgotPassword",
                                        !.pc = "email",
                                        !.repoErr = repoErr,
                                        !.tokenErr = tokenErr,
                                        !.call = c]
           ELSE /\ auth' = [auth EXCEPT
                                !.op = "ForgotPassword",
                                !.pc = "returned",
                                !.repoErr = repoErr,
                                !.tokenErr = IF repoErr.isNil THEN tokenErr
                                             ELSE NotReturned,
                                !.ret = FirstError(repoErr, tokenErr)]
                /\ UNCHANGED callVars

\* mutant: the error of the email call is dropped
ForgotPasswordReturn_SwallowsError ==
    /\ auth.op = "ForgotPassword"
    /\ auth.pc = "email"
    /\ clientErr[auth.call] # NotReturned
    /\ auth' = [auth EXCEPT !.pc = "returned", !.ret = NoErr]
    /\ UNCHANGED callVars

\* the client method returns to ForgotPassword, which returns its error
ForgotPasswordReturn ==
    /\ auth.op = "ForgotPassword"
    /\ auth.pc = "email"
    /\ clientErr[auth.call] # NotReturned
    /\ auth' = [auth EXCEPT
                    !.pc = "returned",
                    !.ret = IF ~clientErr[auth.call].isNil
                            THEN clientErr[auth.call] ELSE NoErr]
    /\ UNCHANGED callVars

NextAuth ==
    \/ Register /\ UNCHANGED mainVars
    \/ \E c \in Calls : RegisterGoroutine(c) /\ UNCHANGED mainVars
    \/ RegisterGoroutineEnd /\ UNCHANGED mainVars
    \/ \E c \in Calls : ForgotPassword(c) /\ UNCHANGED mainVars
    \/ ForgotPasswordReturn /\ UNCHANGED mainVars
    \/ \E c \in Calls : SendVerificationEmailResume(c) /\ UNCHANGED otherVars
    \/ \E c \in Calls : SendPasswordResetEmailResume(c) /\ UNCHANGED otherVars
    \/ \E c \in Calls : Deadline(c) /\ UNCHANGED appVars
    \/ \E c \in Calls : ClientReturn(c) /\ UNCHANGED appVars

SpecAuth == Init /\ [][NextAuth]_vars

(***************************************************************************)
(* getEnv of the two main packages (examples/hama-client/main.go and the   *)
(* server's main.go): the value of an environment variable, or a fallback. *)
(***************************************************************************)
\* os.Getenv(key): the value of the variable, empty when it is unset
Getenv(key) == IF env[key].set THEN env[key].value ELSE ""

\* mutant: a variable that is set wins even when it is empty
getEnv_SetWins(key, fallback) ==
    IF env[key].set THEN env[key].value ELSE fallback

getEnv(key, fallback) ==
    LET value == Getenv(key)
    IN  IF value # "" THEN value ELSE fallback

\* the fallbacks getEnv is called with
Fallbacks ==
    {"", "50051", "8080", "valar-grpc.cloud9-api.svc.cluster.local:50051"}

\* a call of getEnv
GetEnvCall ==
    \E key \in EnvKeys, fallback \in Fallbacks :
        /\ got' = [called |-> TRUE, key |-> key, fallback |-> fallback,
                   result |-> getEnv(key, fallback)]
        /\ UNCHANGED <<callVars, auth, valar, hama, env>>

\* the process starts in any environment
InitEnv ==
    /\ InitCalls(Calls)
    /\ auth = AuthIdle
    /\ valar = ValarStart
    /\ hama = HamaStart
    /\ env \in Envs
    /\ got = NoGot

NextGetEnv == GetEnvCall

SpecGetEnv == InitEnv /\ [][NextGetEnv]_vars

(***************************************************************************)
(* main of the example server: listen, serve in a goroutine, wait for      *)
(* SIGINT or SIGTERM, stop gracefully.                                     *)
(***************************************************************************)
\* the capacity of the quit channel
QuitCapacity == 1

ValarRunning == valar.exit = "running"

\* grpcPort and httpPort are read from the environment
ValarConfigure ==
    /\ ValarRunning /\ valar.pc = "start"
    /\ valar' = [valar EXCEPT !.pc = "configured",
                              !.grpcPort = getEnv("GRPC_PORT", "50051"),
                              !.httpPort = getEnv("HTTP_PORT", "8080")]

\* net.Listen succeeds, or fails and log.Fatalf ends the process
ValarListen ==
    /\ ValarRunning /\ valar.pc = "configured"
    /\ \E ok \in BOOLEAN :
           valar' = IF ok
                    THEN [valar EXCEPT !.pc = "listening"]
                    ELSE [valar EXCEPT !.exit = "fatal", !.fatal = "listen"]

\* the server is created and the goroutine calling Serve is started
ValarServe ==
    /\ ValarRunning /\ valar.pc = "listening"
    /\ valar' = [valar EXCEPT !.pc = "started", !.serve = "serving"]

\* signal.Notify(quit, SIGINT, SIGTERM)
ValarNotify ==
    /\ ValarRunning /\ valar.pc = "started"
    /\ valar' = [valar EXCEPT !.pc = "waiting", !.notify = TRUE]

\* mutant: main does not wait for a signal
ValarQuit_NoWait ==
    /\ ValarRunning /\ valar.pc = "waiting"
    /\ valar' = [valar EXCEPT !.pc = "shutting", !.quit = 0]

\* <-quit
ValarQuit ==
    /\ ValarRunning /\ valar.pc = "waiting"
    /\ valar.quit > 0
    /\ valar' = [valar EXCEPT !.pc = "shutting", !.quit = @ - 1]

\* grpcServer.GracefulStop()
ValarGracefulStop ==
    /\ ValarRunning /\ valar.pc = "shutting"
    /\ valar' = [valar EXCEPT !.pc = "stopped", !.stopCalled = TRUE]

\* main returns
ValarExit ==
    /\ ValarRunning /\ valar.pc = "stopped"
    /\ valar' = [valar EXCEPT !.pc = "returned", !.exit = "returned"]

\* Serve returns an error and log.Fatalf ends the process
ServeFails ==
    /\ ValarRunning /\ valar.serve = "serving" /\ ~valar.stopCalled
    /\ valar' = [valar EXCEPT !.serve = "failed", !.exit = "fatal",
                              !.fatal = "serve"]

\* Serve returns nil after GracefulStop
ServeReturns ==
    /\ ValarRunning /\ valar.serve = "serving" /\ valar.stopCalled
    /\ valar' = [valar EXCEPT !.serve = "returned"]

\* SIGINT or SIGTERM is delivered to the process: it is sent to the quit
\* channel without blocking once signal.Notify has registered it, and
\* terminates the process before that
Signal ==
    /\ ValarRunning
    /\ valar' =
           IF valar.notify
           THEN [valar EXCEPT
                     !.signalled = TRUE,
                     !.quit = IF @ < QuitCapacity THEN @ + 1 ELSE @]
           ELSE [valar EXCEPT !.signalled = TRUE, !.exit = "killed"]

valarFrame == <<callVars, auth, hama, env, got>>

\* the steps of the main goroutine
ValarMain ==
    \/ ValarConfigure /\ UNCHANGED valarFrame
    \/ ValarListen /\ UNCHANGED valarFrame
    \/ ValarServe /\ UNCHANGED valarFrame
    \/ ValarNotify /\ UNCHANGED valarFrame
    \/ ValarQuit /\ UNCHANGED valarFrame
    \/ ValarGracefulStop /\ UNCHANGED valarFrame
    \/ ValarExit /\ UNCHANGED valarFrame

NextValar ==
    \/ ValarMain
    \/ ServeFails /\ UNCHANGED valarFrame
    \/ ServeReturns /\ UNCHANGED valarFrame
    \/ Signal /\ UNCHANGED valarFrame

SpecValar == InitEnv /\ [][NextValar]_vars

\* the main goroutine runs whenever it can
SpecValarFair == SpecValar /\ WF_vars(ValarMain)

(***************************************************************************)
(* main of the example client (examples/hama-client/main.go) and           *)
(* NewEmailClient: read the endpoint, dial it with a blocking dial under a *)
(* connection deadline, use the client, close it.                          *)
(***************************************************************************)
\* the connection deadline of NewEmailClient, in seconds
ConnectTimeout == 5
\* the per-call timeout of the client NewEmailClient returns, in seconds
CallTimeout == 10

\* the times a dial may need to connect
DialSeconds == 0..MaxDialSeconds

HamaRunning == hama.exit = "running"

\* valarEndpoint is read from the environment
HamaConfigure ==
    /\ HamaRunning /\ hama.pc = "start"
    /\ hama' = [hama EXCEPT
                    !.pc = "configured",
                    !.endpoint =
                        getEnv("VALAR_GRPC_ENDPOINT",
                               "valar-grpc.cloud9-api.svc.cluster.local:50051")]

\* what grpc.DialContext returns when the connection needs d seconds: the
\* connection before the deadline, the context's error after it, either of
\* them when both happen at the same time
DialResults(valarEndpoint, d) ==
    {r \in {[conn |-> [target |-> valarEndpoint], err |-> NoErr],
            [conn |-> [nil |-> TRUE],
             err |-> GoErr("context deadline exceeded")]} :
        /\ d < ConnectTimeout => r.err.isNil
        /\ d > ConnectTimeout => ~r.err.isNil}

\* mutant: the client is returned together with the error
NewEmailClientResult_ClientAndError(valarEndpoint, dial) ==
    IF ~dial.err.isNil
    THEN [client |-> [conn |-> dial.conn, timeout |-> CallTimeout],
          err |-> Errorf("failed to connect to Valar at ",
                         valarEndpoint \o ": " \o dial.err.text)]
    ELSE [client |-> [conn |-> dial.conn, timeout |-> CallTimeout],
          err |-> NoErr]

\* the return values of NewEmailClient for what the dial returned
NewEmailClientResult(valarEndpoint, dial) ==
    IF ~dial.err.isNil
    THEN [client |-> NilClient,
          err |-> Errorf("failed to connect to Valar at ",
                         valarEndpoint \o ": " \o dial.err.text)]
    ELSE [client |-> [conn |-> dial.conn, timeout |-> CallTimeout],
          err |-> NoErr]

\* main calls NewEmailClient(valarEndpoint)
NewEmailClient ==
    /\ HamaRunning /\ hama.pc = "configured"
    /\ \E d \in DialSeconds :
           \E dial \in DialResults(hama.endpoint, d) :
               LET r == NewEmailClientResult(hama.endpoint, dial)
               IN  hama' = [hama EXCEPT !.pc = "created",
                                        !.dialSeconds = d,
                                        !.client = r.client,
                                        !.err = r.err]

\* main ends the process with log.Fatalf when NewEmailClient returned an
\* error, and defers Close otherwise
HamaCheck ==
    /\ HamaRunning /\ hama.pc = "created"
    /\ hama' = IF ~hama.err.isNil
               THEN [hama EXCEPT !.exit = "fatal"]
               ELSE [hama EXCEPT !.pc = "ready"]

\* main sends its three example emails, logging their results, and
\* returns; the deferred Close closes the connection
HamaRun ==
    /\ HamaRunning /\ hama.pc = "ready"
    /\ hama' = [hama EXCEPT !.pc = "returned", !.closed = TRUE,
                            !.exit = "returned"]

hamaFrame == <<callVars, auth, valar, env, got>>

NextHama ==
    \/ HamaConfigure /\ UNCHANGED hamaFrame
    \/ NewEmailClient /\ UNCHANGED hamaFrame
    \/ HamaCheck /\ UNCHANGED hamaFrame
    \/ HamaRun /\ UNCHANGED hamaFrame

SpecHama == InitEnv /\ [][NextHama]_vars

(***************************************************************************)
(* Properties.                                                             *)
(***************************************************************************)
Returned(c) == pc[c] = "done"
Rejected(c) == pc[c] = "done" /\ rpcErr[c].code = "InvalidArgument"
\* the request of call c passed validation: the handler went on to the
\* provider, or has returned without an RPC error
Passed(c) == pc[c] = "provider" \/ (pc[c] = "done" /\ rpcErr[c] = NilStatus)
ProviderFailed(c) ==
    pc[c] = "done" /\ Len(provCalls[c]) > 0 /\ ~outcome[c].err.isNil
ProviderSucceeded(c) ==
    pc[c] = "done" /\ Len(provCalls[c]) > 0 /\ outcome[c].err.isNil

\* C1: in each of the six handlers a request with an empty To is answered
\* with an InvalidArgument error and a nil response, whatever its other
\* fields.
C1_EmptyRecipientRejected ==
    \A c \in Calls :
        (Returned(c) /\ req[c].To = "") =>
            /\ rpcErr[c].code = "InvalidArgument"
            /\ resp[c] = NilResponse

C1_Witness ==
    \E c \in Calls :
        /\ Returned(c) /\ handler[c] = "SendEmail"
        /\ req[c] = [To |-> "", Subject |-> "x", HtmlBody |-> "y",
                     TextBody |-> "z"]
        /\ rpcErr[c].code = "InvalidArgument"

\* C2: a handler that returns InvalidArgument has not invoked the provider
\* during that call.
C2_NoProviderCallOnRejection ==
    \A c \in Calls : Rejected(c) => Len(provCalls[c]) = 0

C2_Witness ==
    \E c \in Calls :
        /\ Rejected(c) /\ handler[c] = "SendVerificationEmail"
        /\ req[c].To # "" /\ req[c].VerificationToken = ""
        /\ provCalls[c] = <<>>

\* C3 as stated: when the provider returns an error, whatever its text, the
\* result has success=false, a non-empty errorMessage, an empty messageId
\* and status "Failed".
C3_Original ==
    \A c \in Calls :
        ProviderFailed(c) =>
            /\ resp[c] # NilResponse
            /\ resp[c].Success = FALSE
            /\ resp[c].Error # ""
            /\ resp[c].MessageId = ""
            /\ resp[c].Status = "Failed"

\* C3 amended: when the provider returns an error the result has
\* success=false, an empty messageId, status "failed", and an errorMessage
\* that is non-empty exactly when the error's text is non-empty.
C3_ProviderErrorShaped ==
    \A c \in Calls :
        ProviderFailed(c) =>
            /\ resp[c] # NilResponse
            /\ resp[c].Success = FALSE
            /\ (resp[c].Error # "" <=> outcome[c].err.text # "")
            /\ resp[c].MessageId = ""
            /\ resp[c].Status = "failed"

C3_Witness ==
    \E c \in Calls :
        /\ ProviderFailed(c) /\ handler[c] = "SendTemplateEmail"
        /\ outcome[c] = [messageID |-> "msg_001",
                         err |-> GoErr("quota exceeded")]
        /\ resp[c].Success = FALSE

\* C4 as stated: when the provider returns without error, whatever message
\* id it returns, the result has success=true, a non-empty messageId, an
\* empty errorMessage and status "Sent".
C4_Original ==
    \A c \in Calls :
        ProviderSucceeded(c) =>
            /\ resp[c] # NilResponse
            /\ resp[c].Success = TRUE
            /\ resp[c].MessageId # ""
            /\ resp[c].Error = ""
            /\ resp[c].Status = "Sent"

\* C4 amended: when the provider returns without error the result has
\* success=true, an empty errorMessage, status "sent", and a messageId that
\* is non-empty exactly when the id the provider returned is non-empty.
C4_ProviderSuccessShaped ==
    \A c \in Calls :
        ProviderSucceeded(c) =>
            /\ resp[c] # NilResponse
            /\ resp[c].Success = TRUE
            /\ (resp[c].MessageId # "" <=> outcome[c].messageID # "")
            /\ resp[c].Error = ""
            /\ resp[c].Status = "sent"

C4_Witness ==
    \E c \in Calls :
        /\ ProviderSucceeded(c) /\ handler[c] = "SendVerificationEmail"
        /\ outcome[c] = [messageID |-> "msg_001", err |-> NoErr]
        /\ resp[c].Success = TRUE

\* C5: a call whose request reached the provider returns a non-nil response
\* and a nil RPC error, whether the provider succeeded or failed; the only
\* RPC error a handler returns is InvalidArgument.
C5_ProviderFailureNotRpcError ==
    \A c \in Calls :
        Returned(c) =>
            /\ rpcErr[c].code \in {"OK", "InvalidArgument"}
            /\ Len(provCalls[c]) > 0 =>
                   (resp[c] # NilResponse /\ rpcErr[c] = NilStatus)

C5_Witness ==
    \E c \in Calls :
        /\ ProviderFailed(c) /\ handler[c] = "SendPasswordResetEmail"
        /\ resp[c] # NilResponse /\ rpcErr[c] = NilStatus

\* C6: a request that passes validation causes exactly one provider
\* invocation, also after the provider failed: SendEmail calls
\* SendEmail(to, subject, html, text) with the request's four fields, every
\* other handler calls SendWithTemplate with the request's recipient.
C6_ExactlyOneProviderCall ==
    \A c \in Calls :
        Passed(c) =>
            /\ Len(provCalls[c]) = 1
            /\ IF handler[c] = "SendEmail"
               THEN provCalls[c][1] =
                        [method |-> "SendEmail", to |-> req[c].To,
                         subject |-> req[c].Subject,
                         html |-> req[c].HtmlBody, text |-> req[c].TextBody]
               ELSE /\ provCalls[c][1].method = "SendWithTemplate"
                    /\ provCalls[c][1].to = req[c].To

C6_Witness ==
    \E c \in Calls :
        /\ ProviderFailed(c) /\ handler[c] = "SendEmail"
        /\ req[c].HtmlBody = "y" /\ req[c].TextBody = "z"
        /\ Len(provCalls[c]) = 1

\* C7: SendEmail with a non-empty recipient is rejected with InvalidArgument
\* exactly when the subject is empty or both bodies are empty; otherwise it
\* is dispatched to the provider.
C7_SendEmailValidation ==
    \A c \in Calls :
        (pc[c] # "idle" /\ handler[c] = "SendEmail" /\ req[c].To # "") =>
            LET missing == \/ req[c].Subject = ""
                           \/ (req[c].HtmlBody = "" /\ req[c].TextBody = "")
            IN  /\ Rejected(c) <=> missing
                /\ ~missing => Len(provCalls[c]) = 1

C7_Witness ==
    \E c \in Calls :
        /\ handler[c] = "SendEmail" /\ pc[c] = "provider"
        /\ req[c] = [To |-> "user@example.com", Subject |-> "x",
                     HtmlBody |-> "", TextBody |-> "z"]

\* C8: SendVerificationEmail and SendPasswordResetEmail with a non-empty
\* recipient are rejected with InvalidArgument when the token is empty and
\* dispatched to the provider when it is not.
C8_TokenRequired ==
    \A c \in Calls :
        /\ (pc[c] # "idle" /\ handler[c] = "SendVerificationEmail"
                /\ req[c].To # "") =>
               IF req[c].VerificationToken = ""
               THEN Rejected(c) /\ resp[c] = NilResponse
               ELSE Passed(c) /\ Len(provCalls[c]) = 1
        /\ (pc[c] # "idle" /\ handler[c] = "SendPasswordResetEmail"
                /\ req[c].To # "") =>
               IF req[c].ResetToken = ""
               THEN Rejected(c) /\ resp[c] = NilResponse
               ELSE Passed(c) /\ Len(provCalls[c]) = 1

C8_Witness ==
    \E c \in Calls :
        /\ Rejected(c) /\ handler[c] = "SendPasswordResetEmail"
        /\ req[c].To # "" /\ req[c].ResetToken = ""

\* C9: SendTemplateEmail with a non-empty recipient and an empty templateId
\* is rejected with InvalidArgument, and no handler invokes SendWithTemplate
\* with an empty template identifier.
C9_TemplateIdRequired ==
    \A c \in Calls :
        /\ (pc[c] # "idle" /\ handler[c] = "SendTemplateEmail"
                /\ req[c].To # "" /\ req[c].TemplateId = "") =>
               (Rejected(c) /\ resp[c] = NilResponse)
        /\ \A i \in 1..Len(provCalls[c]) :
               provCalls[c][i].method = "SendWithTemplate" =>
                   provCalls[c][i].templateID # ""

C9_Witness ==
    \E c \in Calls :
        /\ Rejected(c) /\ handler[c] = "SendTemplateEmail"
        /\ req[c].To # "" /\ req[c].TemplateId = ""
        /\ rpcErr[c].msg = "template ID is required"

\* C10 as stated: SendTransactionNotification with a non-empty recipient and
\* an empty transactionId is rejected with InvalidArgument and the provider
\* is not called.
C10_TransactionIdRequired ==
    \A c \in Calls :
        (pc[c] # "idle" /\ handler[c] = "SendTransactionNotification"
             /\ req[c].To # "" /\ req[c].TransactionId = "") =>
            /\ Rejected(c)
            /\ resp[c] = NilResponse
            /\ Len(provCalls[c]) = 0

\* C11: SendVerificationEmail with an empty verificationUrl and a non-empty
\* token t passes verification_url equal to
\* "https://app.cloud9.money/verify?token=" followed by t.
C11_DefaultVerificationUrl ==
    \A c \in Calls :
        (handler[c] = "SendVerificationEmail" /\ Passed(c)
             /\ req[c].VerificationUrl = "") =>
            /\ Len(provCalls[c]) = 1
            /\ provCalls[c][1].variables.verification_url =
                   "https://app.cloud9.money/verify?token="
                       \o req[c].VerificationToken

C11_Witness ==
    \E c \in Calls :
        /\ handler[c] = "SendVerificationEmail" /\ Passed(c)
        /\ req[c].VerificationUrl = "" /\ req[c].VerificationToken = "tok&2"
        /\ provCalls[c][1].variables.verification_url =
               "https://app.cloud9.money/verify?token=tok&2"

\* C12 as stated: SendPasswordResetEmail with expiryMinutes unset (zero)
\* passes a default as expiry_minutes, not the unset value.
C12_ExpiryMinutesDefaulted ==
    \A c \in Calls :
        (handler[c] = "SendPasswordResetEmail" /\ Passed(c)
             /\ req[c].ExpiryMinutes = 0) =>
            /\ Len(provCalls[c]) = 1
            /\ provCalls[c][1].variables.expiry_minutes # "0"

\* C13: on provider success the result's messageId is the id the provider
\* returned, unchanged, in every handler.
C13_MessageIdIsProviderId ==
    \A c \in Calls :
        ProviderSucceeded(c) =>
            /\ resp[c] # NilResponse
            /\ resp[c].MessageId = outcome[c].messageID

C13_Witness ==
    \E c \in Calls :
        /\ ProviderSucceeded(c) /\ handler[c] = "SendVerificationEmail"
        /\ req[c] = [To |-> "user@example.com",
                     VerificationToken |-> "abc123",
                     VerificationUrl |-> "", UserName |-> "John Doe"]
        /\ outcome[c].messageID = "msg_001"
        /\ resp[c].MessageId = "msg_001"

\* C14: on provider failure the result's errorMessage is the provider's
\* error text, unchanged, in every handler.
C14_ErrorMessageIsProviderText ==
    \A c \in Calls :
        ProviderFailed(c) =>
            /\ resp[c] # NilResponse
            /\ resp[c].Error = outcome[c].err.text

C14_Witness ==
    \E c \in Calls :
        /\ ProviderFailed(c) /\ handler[c] = "SendTemplateEmail"
        /\ req[c].TemplateId = "welcome-email"
        /\ outcome[c].err = GoErr("quota exceeded")
        /\ resp[c].Error = "quota exceeded"

FixedPurposeHandlers ==
    {"SendVerificationEmail", "SendPasswordResetEmail", "SendWelcomeEmail",
     "SendTransactionNotification"}

\* C20 as stated: every fixed-purpose handler passes variables that contain
\* both the app name and the support contact.
C20_Original ==
    \A c \in Calls :
        (handler[c] \in FixedPurposeHandlers /\ Passed(c)) =>
            /\ Len(provCalls[c]) = 1
            /\ {"app_name", "support_email"}
                   \subseteq DOMAIN provCalls[c][1].variables

\* C20 amended: every fixed-purpose handler passes app_name = "Cloud9";
\* support_email = "support@cloud9.money" is passed by SendVerificationEmail
\* and SendPasswordResetEmail only, SendWelcomeEmail and
\* SendTransactionNotification pass no support contact.
C20_ProductConstants ==
    \A c \in Calls :
        (handler[c] \in FixedPurposeHandlers /\ Passed(c)) =>
            /\ Len(provCalls[c]) = 1
            /\ LET v == provCalls[c][1].variables
               IN  /\ "app_name" \in DOMAIN v
                   /\ v.app_name = "Cloud9"
                   /\ IF handler[c] \in {"SendVerificationEmail",
                                         "SendPasswordResetEmail"}
                      THEN /\ "support_email" \in DOMAIN v
                           /\ v.support_email = "support@cloud9.money"
                      ELSE "support_email" \notin DOMAIN v

C20_Witness ==
    \E c \in Calls :
        /\ handler[c] = "SendWelcomeEmail" /\ Passed(c)
        /\ provCalls[c][1].variables.app_name = "Cloud9"
        /\ "support_email" \notin DOMAIN provCalls[c][1].variables

\* the provider returned to call c and the handler has returned
ProviderReturned(c) == pc[c] = "done" /\ Len(provCalls[c]) > 0

\* the same provider outcome: the same error, or no error and the same id
SameOutcome(o1, o2) ==
    /\ o1.err = o2.err
    /\ o1.err.isNil => o1.messageID = o2.messageID

\* C15: two calls of the same handler with equal requests whose provider
\* calls return the same outcome have results equal in every field except
\* the timestamp.
C15_ShapingDeterministic ==
    \A c1 \in ConcCalls, c2 \in ConcCalls :
        (/\ ProviderReturned(c1) /\ ProviderReturned(c2)
         /\ handler[c1] = handler[c2] /\ req[c1] = req[c2]
         /\ SameOutcome(outcome[c1], outcome[c2])) =>
            /\ rpcErr[c1] = rpcErr[c2]
            /\ resp[c1] # NilResponse /\ resp[c2] # NilResponse
            /\ [resp[c1] EXCEPT !.Timestamp = 0] =
                   [resp[c2] EXCEPT !.Timestamp = 0]

C15_Witness ==
    \E c1 \in ConcCalls, c2 \in ConcCalls :
        /\ c1 # c2
        /\ ProviderReturned(c1) /\ ProviderReturned(c2)
        /\ handler[c1] = "SendEmail" /\ handler[c2] = "SendEmail"
        /\ req[c1] = req[c2]
        /\ outcome[c1].err.isNil /\ outcome[c2].err.isNil
        /\ outcome[c1].messageID = "msg_001"
        /\ outcome[c2].messageID = "msg_001"
        /\ resp[c1].Timestamp # resp[c2].Timestamp
        /\ resp[c1].MessageId = resp[c2].MessageId

\* the result of call c is shaped from the request and the provider outcome
\* of call c
OwnResult(c) ==
    /\ Passed(c) =>
           (Len(provCalls[c]) = 1 /\ provCalls[c][1].to = req[c].To)
    /\ ProviderSucceeded(c) =>
           (/\ resp[c] # NilResponse
            /\ resp[c].Success
            /\ resp[c].MessageId = outcome[c].messageID
            /\ resp[c].Error = "")
    /\ ProviderFailed(c) =>
           (/\ resp[c] # NilResponse
            /\ ~resp[c].Success
            /\ resp[c].Error = outcome[c].err.text
            /\ resp[c].MessageId = "")

\* C16: under every interleaving of concurrent calls, a step of one call
\* changes no other call's request, provider log, outcome or result, and
\* each call's result reflects its own request and its own provider outcome.
C16_NoCrossTalk ==
    [][\E c \in ConcCalls :
          /\ \A d \in ConcCalls \ {c} :
                 /\ pc'[d] = pc[d] /\ handler'[d] = handler[d]
                 /\ req'[d] = req[d] /\ provCalls'[d] = provCalls[d]
                 /\ outcome'[d] = outcome[d] /\ resp'[d] = resp[d]
                 /\ rpcErr'[d] = rpcErr[d]
          /\ \A d \in ConcCalls : OwnResult(d)']_vars

C16_Witness ==
    \E c1 \in ConcCalls, c2 \in ConcCalls :
        /\ ProviderSucceeded(c1) /\ ProviderFailed(c2)
        /\ handler[c1] = "SendVerificationEmail"
        /\ handler[c2] = "SendTemplateEmail"
        /\ resp[c1].MessageId = "msg_001"
        /\ resp[c2].Error = "quota exceeded"

\* C17 as stated: when the context of a call is cancelled or expires while
\* the handler is in flight, the provider call is abandoned and the handler
\* produces no result for that call.
C17_CancelledCallProducesNoResult ==
    \A c \in Calls :
        (ctxDone[c] /\ pc[c] = "done") =>
            /\ outcome[c] = NoOutcome
            /\ resp[c] = NilResponse

\* the client method of call c has returned
ClientReturned(c) == clientErr[c] # NotReturned

\* C18: a client method returns nil exactly when the RPC returned no error
\* and a response with Success=true; a response with Success=false is
\* returned as the error "email send failed: " followed by its Error text.
C18_ClientReportsSendFailure ==
    \A c \in Calls :
        ClientReturned(c) =>
            /\ ~ctxDone[c] =>
                   rpcRet[c] = [resp |-> resp[c], err |-> rpcErr[c]]
            /\ clientErr[c].isNil <=>
                   (/\ rpcRet[c].err = NilStatus
                    /\ rpcRet[c].resp # NilResponse
                    /\ rpcRet[c].resp.Success)
            /\ (/\ rpcRet[c].err = NilStatus
                /\ rpcRet[c].resp # NilResponse
                /\ ~rpcRet[c].resp.Success) =>
                   (/\ ~clientErr[c].isNil
                    /\ clientErr[c].text =
                           "email send failed: " \o rpcRet[c].resp.Error)

C18_Witness ==
    \E c \in Calls :
        /\ ClientReturned(c) /\ ~ctxDone[c]
        /\ handler[c] = "SendVerificationEmail"
        /\ rpcErr[c] = NilStatus /\ ~resp[c].Success
        /\ clientErr[c].text = "email send failed: quota exceeded"

\* C19: a client call whose deadline elapsed before the response arrived
\* fails with the error "gRPC call failed", never with "email send failed";
\* a client error is of the first class exactly when the RPC returned an
\* error and of the second exactly when it returned a response with
\* Success=false.
C19_TimeoutIsTransportError ==
    \A c \in Calls :
        ClientReturned(c) =>
            /\ ctxDone[c] =>
                   (/\ rpcRet[c].err.code = "DeadlineExceeded"
                    /\ ~clientErr[c].isNil
                    /\ clientErr[c].prefix = "gRPC call failed: ")
            /\ ~clientErr[c].isNil =>
                   (/\ clientErr[c].prefix \in
                           {"gRPC call failed: ", "email send failed: "}
                    /\ clientErr[c].prefix = "gRPC call failed: " <=>
                           rpcRet[c].err # NilStatus
                    /\ clientErr[c].prefix = "email send failed: " <=>
                           (/\ rpcRet[c].err = NilStatus
                            /\ ~rpcRet[c].resp.Success))

C19_Witness ==
    \E c \in Calls :
        /\ ClientReturned(c) /\ ctxDone[c]
        /\ handler[c] = "SendPasswordResetEmail"
        /\ ProviderFailed(c)
        /\ clientErr[c].text =
               "gRPC call failed: rpc error: code = DeadlineExceeded desc = context deadline exceeded"

\* the fields each handler requires are all non-empty in the request of
\* call c
RequiredPresent(c) ==
    /\ req[c].To # ""
    /\ handler[c] = "SendEmail" =>
           (req[c].Subject # ""
                /\ (req[c].HtmlBody # "" \/ req[c].TextBody # ""))
    /\ handler[c] = "SendVerificationEmail" => req[c].VerificationToken # ""
    /\ handler[c] = "SendPasswordResetEmail" => req[c].ResetToken # ""
    /\ handler[c] = "SendTemplateEmail" => req[c].TemplateId # ""

\* C21: a request whose required fields are non-empty is dispatched to the
\* provider whatever its optional fields; a handler returns InvalidArgument
\* only when a required field is empty.
C21_OptionalFieldsNotValidated ==
    \A c \in Calls :
        pc[c] # "idle" =>
            /\ RequiredPresent(c) => (Passed(c) /\ Len(provCalls[c]) = 1)
            /\ Rejected(c) => ~RequiredPresent(c)

C21_Witness ==
    \E c \in Calls :
        /\ handler[c] = "SendWelcomeEmail" /\ Passed(c)
        /\ req[c] = [To |-> "user@example.com", UserName |-> "",
                     AccountType |-> ""]
        /\ Len(provCalls[c]) = 1

\* the template identifier of each fixed-purpose handler
FixedTemplateId(h) ==
    CASE h = "SendVerificationEmail" -> "verification-email"
      [] h = "SendPasswordResetEmail" -> "password-reset"
      [] h = "SendWelcomeEmail" -> "welcome-email"
      [] h = "SendTransactionNotification" -> "transaction-notification"

\* C23: each fixed-purpose handler calls the provider with its own constant
\* template identifier whatever the request; SendTemplateEmail passes the
\* request's template identifier and variables unchanged.
C23_TemplateIdentifiers ==
    \A c \in Calls :
        (Passed(c) /\ handler[c] # "SendEmail") =>
            /\ Len(provCalls[c]) = 1
            /\ IF handler[c] = "SendTemplateEmail"
               THEN /\ provCalls[c][1].templateID = req[c].TemplateId
                    /\ provCalls[c][1].variables = req[c].Variables
               ELSE /\ provCalls[c][1].templateID = FixedTemplateId(handler[c])
                    /\ provCalls[c][1].templateID # ""

C23_Witness ==
    \E c \in Calls :
        /\ handler[c] = "SendWelcomeEmail" /\ Passed(c)
        /\ provCalls[c][1].templateID = "welcome-email"

\* C24: a non-empty verificationUrl or resetUrl of the request is passed
\* unchanged as verification_url or reset_url; the token is passed as
\* verification_token or reset_token whether or not a URL is given.
C24_ExplicitUrlPassedUnchanged ==
    \A c \in Calls :
        /\ (handler[c] = "SendVerificationEmail" /\ Passed(c)) =>
               /\ Len(provCalls[c]) = 1
               /\ req[c].VerificationUrl # "" =>
                      provCalls[c][1].variables.verification_url =
                          req[c].VerificationUrl
               /\ provCalls[c][1].variables.verification_token =
                      req[c].VerificationToken
        /\ (handler[c] = "SendPasswordResetEmail" /\ Passed(c)) =>
               /\ Len(provCalls[c]) = 1
               /\ req[c].ResetUrl # "" =>
                      provCalls[c][1].variables.reset_url = req[c].ResetUrl
               /\ provCalls[c][1].variables.reset_token = req[c].ResetToken

C24_Witness ==
    \E c \in Calls :
        /\ handler[c] = "SendPasswordResetEmail" /\ Passed(c)
        /\ req[c].ResetUrl = "https://hama.test/r"
        /\ provCalls[c][1].variables.reset_url = "https://hama.test/r"
        /\ provCalls[c][1].variables.reset_token = "r5t"

\* C25: SendPasswordResetEmail with an empty resetUrl and a non-empty token
\* t passes reset_url equal to
\* "https://app.cloud9.money/reset-password?token=" followed by t.
C25_DefaultResetUrl ==
    \A c \in Calls :
        (handler[c] = "SendPasswordResetEmail" /\ Passed(c)
             /\ req[c].ResetUrl = "") =>
            /\ Len(provCalls[c]) = 1
            /\ provCalls[c][1].variables.reset_url =
                   "https://app.cloud9.money/reset-password?token="
                       \o req[c].ResetToken

C25_Witness ==
    \E c \in Calls :
        /\ handler[c] = "SendPasswordResetEmail" /\ Passed(c)
        /\ req[c].ResetUrl = "" /\ req[c].ResetToken = "tok&2"
        /\ provCalls[c][1].variables.reset_url =
               "https://app.cloud9.money/reset-password?token=tok&2"

\* C26: the first failing check determines the error: an empty recipient is
\* rejected with "recipient email is required" in every handler whatever
\* else is missing, and SendEmail with an empty subject is rejected with
\* "subject is required" also when both bodies are empty.
C26_ValidationOrder ==
    \A c \in Calls :
        Returned(c) =>
            /\ req[c].To = "" =>
                   rpcErr[c] = StatusError("InvalidArgument",
                                           "recipient email is required")
            /\ (handler[c] = "SendEmail" /\ req[c].To # ""
                    /\ req[c].Subject = "") =>
                   rpcErr[c] = StatusError("InvalidArgument",
                                           "subject is required")
            /\ (handler[c] = "SendEmail" /\ req[c].To # ""
                    /\ req[c].Subject # "" /\ req[c].HtmlBody = ""
                    /\ req[c].TextBody = "") =>
                   rpcErr[c] = StatusError("InvalidArgument",
                                           "email body is required")

C26_Witness ==
    \E c \in Calls :
        /\ Returned(c) /\ handler[c] = "SendEmail"
        /\ req[c] = [To |-> "user@example.com", Subject |-> "",
                     HtmlBody |-> "", TextBody |-> ""]
        /\ rpcErr[c].msg = "subject is required"

\* C27: a verification email sent through the EmailClient carries no
\* verificationUrl, so the provider receives the default verification_url;
\* a client call with an empty email or token returns the error
\* "gRPC call failed" and the provider is not called.
C27_ClientVerificationDefaultUrl ==
    \A c \in Calls :
        (handler[c] = "SendVerificationEmail" /\ pc[c] # "idle") =>
            /\ req[c].VerificationUrl = ""
            /\ Passed(c) =>
                   (/\ Len(provCalls[c]) = 1
                    /\ provCalls[c][1].variables.verification_url =
                           "https://app.cloud9.money/verify?token="
                               \o req[c].VerificationToken)
            /\ (req[c].To = "" \/ req[c].VerificationToken = "") =>
                   (/\ provCalls[c] = <<>>
                    /\ ClientReturned(c) =>
                           (/\ ~clientErr[c].isNil
                            /\ clientErr[c].prefix = "gRPC call failed: "))

C27_Witness ==
    \E c \in Calls :
        /\ handler[c] = "SendVerificationEmail" /\ ClientReturned(c)
        /\ req[c].To # "" /\ req[c].VerificationToken = ""
        /\ clientErr[c].text =
               "gRPC call failed: rpc error: code = InvalidArgument desc = verification token is required"

\* both collaborators of the AuthHandler method succeeded
AuthPrepared == auth.repoErr = NoErr /\ auth.tokenErr = NoErr

C30_GetEnvFallback ==
    got.called =>
        /\ got.result =
               IF env[got.key].set /\ env[got.key].value # ""
               THEN env[got.key].value
               ELSE got.fallback
        /\ env[got.key].value = "" => got.result = got.fallback
        /\ got.result = "" => got.fallback = ""

C30_Witness ==
    /\ got.called /\ got.key = "GRPC_PORT" /\ got.fallback = "50051"
    /\ env["GRPC_PORT"] = [set |-> TRUE, value |-> ""]
    /\ got.result = "50051"

\* NewEmailClient has returned to main
ClientCreated == hama.pc \in {"created", "ready", "returned"}

\* C29: NewEmailClient returns a client with a non-nil connection and a
\* per-call timeout of 10 seconds together with a nil error, or a nil
\* client together with a non-nil error, the latter when the blocking dial
\* did not complete within its 5-second deadline; never both, never
\* neither.
C29_ClientOrError ==
    ClientCreated =>
        /\ (hama.client = NilClient) # hama.err.isNil
        /\ hama.err.isNil =>
               (/\ hama.client.conn = [target |-> hama.endpoint]
                /\ hama.client.timeout = 10
                /\ hama.dialSeconds <= 5)
        /\ ~hama.err.isNil =>
               hama.err.text =
                   "failed to connect to Valar at " \o hama.endpoint
                       \o ": context deadline exceeded"
        /\ hama.dialSeconds < 5 => hama.err.isNil
        /\ hama.dialSeconds > 5 => ~hama.err.isNil

C29_Witness ==
    /\ hama.exit = "fatal" /\ hama.client = NilClient
    /\ hama.dialSeconds = 6
    /\ hama.err.text =
           "failed to connect to Valar at valar-grpc.cloud9-api.svc.cluster.local:50051: context deadline exceeded"

====
